---------------------------- MODULE Spec2Model ----------------------------
(***************************************************************************)
(* A model of egui-any (src/src/lib.rs): the schema `Desc`, the runtime    *)
(* `Value`, and `ValueProbe`, the immediate-mode editor that walks a       *)
(* schema/value pair once per frame.                                       *)
(*                                                                         *)
(* Representation.                                                         *)
(*   Option<T>     a set with at most one element: {} is None, {x} Some(x) *)
(*   Desc          a record tagged by k, "Bool" .. "Map"                   *)
(*   Value         a record tagged by k, the text Value::kind() returns    *)
(*   i64           an integer (the code never does arithmetic on it)       *)
(*   f64           an integer count of halves: n stands for n/2, so that   *)
(*                 the casts `as i64` (truncation) and `as f64` (widening) *)
(*                 are not the identity                                    *)
(*   HashMap       a sequence of [key, val] with distinct keys, in the     *)
(*                 order the map iterates; where a new key lands in that   *)
(*                 order is not fixed by the code and is chosen freely     *)
(*   egui::Id      the sequence of the things hashed into it; the 64-bit   *)
(*                 hash is taken to be free of collisions                  *)
(*   temp storage  egui's IdTypeMap, keyed by (Id, type): one function     *)
(*                 per stored type (Desc, NewKey)                          *)
(*                                                                         *)
(* The widgets of egui and egui_probe are outside src/.  They are modelled *)
(* by their documented behaviour: a checkbox toggles, a text field takes   *)
(* the typed text, a DragValue takes the entered number, and a DragValue   *)
(* with a range (egui_probe::customize::probe_range) clamps the number it  *)
(* shows into the range, "even when not interacted with" (egui's           *)
(* DragValue::range).                                                      *)
(***************************************************************************)
EXTENDS Integers, Naturals, Sequences, FiniteSets, TLC

VARIABLES
    desc,   \* demo.rs EguiValueDemoApp.desc : Option<Desc>
    value,  \* demo.rs EguiValueDemoApp.value : Value
    temp,   \* egui temp storage: [desc: Id -> Desc, key: Id -> String]
    ev,     \* the interaction the last frame consumed (IdleEv when none)
    rows    \* what the last frame rendered: one record per ValueProbe row

vars == <<desc, value, temp, ev, rows>>

-----------------------------------------------------------------------------
(* Option<T> *)

None == {}
Some(x) == {x}
IsSome(o) == o # {}
Unwrap(o) == CHOOSE x \in o : TRUE

-----------------------------------------------------------------------------
(* Desc and Value *)

DescBool == [k |-> "Bool"]
DescInt(min, max) == [k |-> "Int", min |-> min, max |-> max]
DescFloat(min, max) == [k |-> "Float", min |-> min, max |-> max]
DescString(variants) == [k |-> "String", variants |-> variants]
DescList(elem_desc) == [k |-> "List", elem |-> elem_desc]
DescMap(value_desc) == [k |-> "Map", elem |-> value_desc]

ValueBool(b) == [k |-> "bool", b |-> b]
ValueInt(n) == [k |-> "int", n |-> n]
ValueFloat(n) == [k |-> "float", n |-> n]
ValueString(s) == [k |-> "string", s |-> s]
ValueList(elems) == [k |-> "list", e |-> elems]
ValueMap(entries) == [k |-> "map", e |-> entries]

Entry(key, val) == [key |-> key, val |-> val]

\* Desc::kind
Desc_kind(d) ==
    CASE d.k = "Bool" -> "bool"
      [] d.k = "Int" -> "int"
      [] d.k = "Float" -> "float"
      [] d.k = "String" -> "string"
      [] d.k = "List" -> "list"
      [] d.k = "Map" -> "map"

\* Value::kind
Value_kind(v) == v.k

\* Desc::default_value
\* a default that is false whatever the schema
default_value_false(d) == ValueBool(FALSE)

default_value(d) ==
    CASE d.k = "Bool" -> ValueBool(FALSE)
      [] d.k = "Int" -> ValueInt(IF IsSome(d.min) THEN Unwrap(d.min) ELSE 0)
      [] d.k = "Float" -> ValueFloat(IF IsSome(d.min) THEN Unwrap(d.min) ELSE 0)
      [] d.k = "String" ->
            IF IsSome(d.variants) /\ Len(Unwrap(d.variants)) > 0
            THEN ValueString(Head(Unwrap(d.variants)))
            ELSE ValueString("")
      [] d.k = "List" -> ValueList(<<>>)
      [] d.k = "Map" -> ValueMap(<<>>)

-----------------------------------------------------------------------------
(* Numbers *)

Min2(a, b) == IF a <= b THEN a ELSE b
Max2(a, b) == IF a >= b THEN a ELSE b

\* i64::clamp and f64::clamp start with assert!(min <= max): over present
\* bounds with min > max they panic
clamp_panics(min, max) == IsSome(min) /\ IsSome(max) /\ ~(Unwrap(min) <= Unwrap(max))

\* i64::clamp / f64::clamp, where they do not panic
clamp(x, lo, hi) == IF x < lo THEN lo ELSE IF x > hi THEN hi ELSE x

\* a cast that rounds down
FloatAsInt_floor(n) == n \div 2

\* `*value as i64`: a float, in halves, truncated toward zero
FloatAsInt(n) == IF n >= 0 THEN n \div 2 ELSE -((-n) \div 2)

\* `*value as f64`: an integer widened, in halves
IntAsFloat(i) == 2 * i

\* the arm `(Some(min), Some(max)) => return invalid_range(ui, min, max)`,
\* taken when the guard `min <= max` of the arm before it fails
InvalidRange(min, max) == IsSome(min) /\ IsSome(max) /\ ~(Unwrap(min) <= Unwrap(max))

\* a reset that reads min alone
reset_to_min_or_zero(min, max) == IF IsSome(min) THEN Unwrap(min) ELSE 0

\* reset_to, for a range that is not invalid (the same match for i64 and f64;
\* 0.0 is 0 halves)
reset_to(min, max) ==
    CASE ~IsSome(min) /\ ~IsSome(max) -> 0
      [] IsSome(min) /\ ~IsSome(max) -> Max2(Unwrap(min), 0)
      [] ~IsSome(min) /\ IsSome(max) -> Min2(Unwrap(max), 0)
      [] OTHER -> clamp(0, Unwrap(min), Unwrap(max))

\* a conversion that forgets the bounds
ConvertTo_unclamped(f, min, max) == f

\* x, the number the convert button offers: f limited to the present bounds
ConvertTo(f, min, max) ==
    CASE ~IsSome(min) /\ ~IsSome(max) -> f
      [] IsSome(min) /\ ~IsSome(max) -> Max2(Unwrap(min), f)
      [] ~IsSome(min) /\ IsSome(max) -> Min2(Unwrap(max), f)
      [] OTHER -> clamp(f, Unwrap(min), Unwrap(max))

\* egui_probe::customize::probe_range(min.., ..=max or min..=max, value): a
\* DragValue over the range.  The number shown is the stored one, or the one
\* entered in this frame, clamped into the range.
probe_range(shown, min, max) ==
    LET lo == IF IsSome(min) THEN Max2(shown, Unwrap(min)) ELSE shown
    IN  IF IsSome(max) THEN Min2(lo, Unwrap(max)) ELSE lo

-----------------------------------------------------------------------------
(* ToString, as Rust's Display prints bool, i64 and f64 *)

Digits == <<"0", "1", "2", "3", "4", "5", "6", "7", "8", "9">>

RECURSIVE NatToString(_)
NatToString(n) ==
    IF n < 10 THEN Digits[n + 1]
    ELSE NatToString(n \div 10) \o Digits[(n % 10) + 1]

Abs(n) == IF n < 0 THEN -n ELSE n

BoolToString(b) == IF b THEN "true" ELSE "false"
IntToString(n) == (IF n < 0 THEN "-" ELSE "") \o NatToString(Abs(n))
FloatToString(n) ==
    (IF n < 0 THEN "-" ELSE "") \o NatToString(Abs(n) \div 2)
        \o (IF Abs(n) % 2 = 1 THEN ".5" ELSE "")

\* {x:0.1}: an f64 with one digit after the point
FloatFixed1(n) ==
    (IF n < 0 THEN "-" ELSE "") \o NatToString(Abs(n) \div 2)
        \o (IF Abs(n) % 2 = 1 THEN ".5" ELSE ".0")

\* {s:?}: a string in quotes
Quoted(s) == "\"" \o s \o "\""

-----------------------------------------------------------------------------
(* egui::Id and the temp storage *)

\* Id::NULL
NullId == <<>>

\* Id::new(source): the hash of the source, here the source followed by a mark
IdNew(source) == Append(source, "new")

\* Id::with(salt)
With(id, salt) == Append(id, salt)

\* Ui::make_persistent_id(salt) is ui.id().with(salt); every row of the probe
\* is laid out by the same Ui
MakePersistentId(salt) == <<"ui">> \o salt

\* a positional index as a salt, and as the row label format!("[{idx}]")
IdxSalt(idx) == NatToString(idx)
IdxLabel(idx) == "[" \o NatToString(idx) \o "]"

\* a use of temp storage: the type stored and the id it is stored under
DescAt(id) == [ty |-> "Desc", id |-> id]
NewKeyAt(id) == [ty |-> "NewKey", id |-> id]

\* IdTypeMap::get_temp(id).unwrap_or(default)
GetTemp(store, id, default) == IF id \in DOMAIN store THEN store[id] ELSE default

\* IdTypeMap::insert_temp(id, x)
InsertTemp(store, id, x) ==
    [i \in DOMAIN store \cup {id} |-> IF i = id THEN x ELSE store[i]]

EmptyTemp == [desc |-> <<>>, key |-> <<>>]

-----------------------------------------------------------------------------
(* One frame's interaction and what the frame renders *)

\* An interaction: the row it lands on (the path of row labels from the root),
\* the widget, and what was entered.
\*   "toggle"  the checkbox of a Bool             "drag"   a number entered (n)
\*   "type"    text typed into a String (s)       "select" variant n of a combo
\*   "button"  the reset/convert button           "add"    the add button
\*   "key"     text typed into the new-key field  "remove" DeleteMe's button
\*   "desc"    the inferred schema edited by its probe (d)
\*   "field"   the inferred schema edited by its iterate_inner rows (d)
Event(path, w, n, s, d) == [path |-> path, w |-> w, n |-> n, s |-> s, d |-> d]

IdleEv == Event(<<>>, "idle", 0, "", DescBool)

Clicked(e, path, w) == e.w = w /\ e.path = path

\* A rendered row: its path, the schema it was probed with (d), what it shows
\* (t), the text of its message (for a map, the text in its new-key field) and
\* of its button ("" when it has none), the value the button offers, the value
\* the row was given, and the uses of temp storage it made.
Row(path, d, t, msg, label, offer, given, ids) ==
    [path |-> path, d |-> d, t |-> t, msg |-> msg, label |-> label,
     offer |-> offer, given |-> given, ids |-> ids]

\* The context a frame threads through the rows: the temp storage, the rows
\* rendered so far, whether the interaction has been consumed, and the place
\* in its iteration order where the HashMap puts a key that is new to it.
Cx(store, rendered, hit, slot) ==
    [temp |-> store, rows |-> rendered, hit |-> hit, slot |-> slot]

Rendered(cx, row, hit) ==
    [cx EXCEPT !.rows = @ \cup {row}, !.hit = @ \/ hit]

-----------------------------------------------------------------------------
(* ValueProbe::probe, one operator per arm of `match self.desc`.  Each gives *)
(* the value after the row and the context after it.                        *)

\* format!("Expected {what}, but is {} instead", self.value.kind())
Expected(what, v) == "Expected " \o what \o ", but is " \o Value_kind(v) \o " instead"

\* a mismatch row that repairs the value without waiting for the click
MismatchRow_unasked(d, what, label, to, v, path, cx, e) ==
    [v |-> to,
     cx |-> Rendered(cx, Row(path, Some(d), "mismatch", Expected(what, v), label,
                             Some(to), v, {}),
                     Clicked(e, path, "button"))]

\* a mismatch row: the message, the button, and the click that replaces the
\* whole value by what the button offers
MismatchRow(d, what, label, to, v, path, cx, e) ==
    [v |-> IF Clicked(e, path, "button") THEN to ELSE v,
     cx |-> Rendered(cx, Row(path, Some(d), "mismatch", Expected(what, v), label,
                             Some(to), v, {}),
                     Clicked(e, path, "button"))]

\* a panic: the frame is aborted at this row (what: the call that panicked)
Panic(d, what, v, path, cx) ==
    [v |-> v, cx |-> Rendered(cx, Row(path, Some(d), "panic", what, "", None, v, {}), FALSE)]

\* a row that edits a value of the matching variant
EditorRow(d, t, to, v, path, cx, hit) ==
    [v |-> to, cx |-> Rendered(cx, Row(path, Some(d), t, "", "", None, v, {}), hit)]

\* invalid_range: the message alone, min and max as Display prints them (the
\* backquotes of the message are written ' here)
invalid_range(d, min, max, v, path, cx) ==
    [v |-> v,
     cx |-> Rendered(cx, Row(path, Some(d), "invalid_range",
                             "Invalid range. 'min = " \o min
                                \o "' must be not greater than 'max = " \o max \o "'.",
                             "", None, v, {}), FALSE)]

\* Some(Desc::Bool)
probe_Bool(v, path, cx, e) ==
    IF v.k = "bool"
    THEN EditorRow(DescBool, "checkbox",
                   IF Clicked(e, path, "toggle") THEN ValueBool(~v.b) ELSE v,
                   v, path, cx, Clicked(e, path, "toggle"))
    ELSE MismatchRow(DescBool, "boolean", "Reset to false", ValueBool(FALSE), v, path, cx, e)

\* the number a DragValue shows: the one entered in this frame, or the stored one
Shown(n, path, e) == IF Clicked(e, path, "drag") THEN e.n ELSE n

\* an editor whose arm (None, Some(max)) forgets the range
Int_editor_open_above(min, max, v, path, cx, e) ==
    IF ~IsSome(min)
    THEN EditorRow(DescInt(min, max), "drag", ValueInt(Shown(v.n, path, e)),
                   v, path, cx, Clicked(e, path, "drag"))
    ELSE EditorRow(DescInt(min, max), "drag_range",
                   ValueInt(probe_range(Shown(v.n, path, e), min, max)),
                   v, path, cx, Clicked(e, path, "drag"))

\* Value::Int(value) under Desc::Int: value.probe without bounds, probe_range
\* over the present bounds otherwise
Int_editor(min, max, v, path, cx, e) ==
    IF ~IsSome(min) /\ ~IsSome(max)
    THEN EditorRow(DescInt(min, max), "drag", ValueInt(Shown(v.n, path, e)),
                   v, path, cx, Clicked(e, path, "drag"))
    ELSE EditorRow(DescInt(min, max), "drag_range",
                   ValueInt(probe_range(Shown(v.n, path, e), min, max)),
                   v, path, cx, Clicked(e, path, "drag"))

\* Value::Float(value) and `_` under Desc::Int: convert to x, or reset
Int_mismatch(min, max, v, path, cx, e) ==
    IF v.k = "float" /\ clamp_panics(min, max)
    THEN Panic(DescInt(min, max), "f.clamp(min, max)", v, path, cx)
    ELSE IF v.k = "float"
    THEN MismatchRow(DescInt(min, max), "integer",
                     "Convert to " \o IntToString(ConvertTo(FloatAsInt(v.n), min, max)),
                     ValueInt(ConvertTo(FloatAsInt(v.n), min, max)), v, path, cx, e)
    ELSE MismatchRow(DescInt(min, max), "integer",
                     "Reset to " \o IntToString(reset_to(min, max)),
                     ValueInt(reset_to(min, max)), v, path, cx, e)

\* a probe that does not look at the range before it dispatches
probe_Int_unguarded(min, max, v, path, cx, e) ==
    IF v.k = "int" THEN Int_editor(min, max, v, path, cx, e)
    ELSE Int_mismatch(min, max, v, path, cx, e)

\* Some(&Desc::Int { min, max })
probe_Int(min, max, v, path, cx, e) ==
    IF InvalidRange(min, max)
    THEN invalid_range(DescInt(min, max), IntToString(Unwrap(min)), IntToString(Unwrap(max)),
                       v, path, cx)
    ELSE IF v.k = "int" THEN Int_editor(min, max, v, path, cx, e)
    ELSE Int_mismatch(min, max, v, path, cx, e)

\* Value::Float(value) under Desc::Float
Float_editor(min, max, v, path, cx, e) ==
    IF ~IsSome(min) /\ ~IsSome(max)
    THEN EditorRow(DescFloat(min, max), "drag", ValueFloat(Shown(v.n, path, e)),
                   v, path, cx, Clicked(e, path, "drag"))
    ELSE EditorRow(DescFloat(min, max), "drag_range",
                   ValueFloat(probe_range(Shown(v.n, path, e), min, max)),
                   v, path, cx, Clicked(e, path, "drag"))

\* Value::Int(value) and `_` under Desc::Float: convert to x, or reset
Float_mismatch(min, max, v, path, cx, e) ==
    IF v.k = "int" /\ clamp_panics(min, max)
    THEN Panic(DescFloat(min, max), "f.clamp(min, max)", v, path, cx)
    ELSE IF v.k = "int"
    THEN MismatchRow(DescFloat(min, max), "integer",
                     "Convert to " \o FloatFixed1(ConvertTo(IntAsFloat(v.n), min, max)),
                     ValueFloat(ConvertTo(IntAsFloat(v.n), min, max)), v, path, cx, e)
    ELSE MismatchRow(DescFloat(min, max), "integer",
                     "Reset to " \o FloatToString(reset_to(min, max)),
                     ValueFloat(reset_to(min, max)), v, path, cx, e)

\* a probe that looks at the value's variant before it looks at the range
probe_Float_dispatch_first(min, max, v, path, cx, e) ==
    IF v.k = "float"
    THEN IF InvalidRange(min, max)
         THEN invalid_range(DescFloat(min, max), FloatToString(Unwrap(min)),
                            FloatToString(Unwrap(max)), v, path, cx)
         ELSE Float_editor(min, max, v, path, cx, e)
    ELSE Float_mismatch(min, max, v, path, cx, e)

\* Some(&Desc::Float { min, max })
probe_Float(min, max, v, path, cx, e) ==
    IF InvalidRange(min, max)
    THEN invalid_range(DescFloat(min, max), FloatToString(Unwrap(min)),
                       FloatToString(Unwrap(max)), v, path, cx)
    ELSE IF v.k = "float" THEN Float_editor(min, max, v, path, cx, e)
    ELSE Float_mismatch(min, max, v, path, cx, e)

\* convert_to_string: value.to_string(), offered by the button "Convert to {s:?}"
convert_to_string(v) ==
    CASE v.k = "bool" -> BoolToString(v.b)
      [] v.k = "int" -> IntToString(v.n)
      [] v.k = "float" -> FloatToString(v.n)

\* arms that offer the conversion whether or not the schema has variants
String_mismatch_converts(variants, v, path, cx, e) ==
    CASE v.k \in {"bool", "int", "float"} ->
            MismatchRow(DescString(variants), "string",
                        "Convert to " \o Quoted(convert_to_string(v)),
                        ValueString(convert_to_string(v)), v, path, cx, e)
      [] v.k \in {"list", "map"} /\ ~IsSome(variants) ->
            MismatchRow(DescString(variants), "string", "Reset to empty string",
                        ValueString(""), v, path, cx, e)
      [] OTHER ->
            MismatchRow(DescString(variants), "string", "Reset to default value",
                        ValueString(IF Len(Unwrap(variants)) > 0
                                    THEN Head(Unwrap(variants)) ELSE ""),
                        v, path, cx, e)

\* the arms of a String schema for a value that is no string, in the order
\* of the match; the last one unwraps the variants
String_mismatch(variants, v, path, cx, e) ==
    IF v.k \in {"bool", "int", "float"} /\ ~IsSome(variants)
    THEN MismatchRow(DescString(variants), "string",
                     "Convert to " \o Quoted(convert_to_string(v)),
                     ValueString(convert_to_string(v)), v, path, cx, e)
    ELSE IF ~IsSome(variants)
    THEN MismatchRow(DescString(variants), "string", "Reset to empty string",
                     ValueString(""), v, path, cx, e)
    ELSE IF ~IsSome(variants)
    THEN Panic(DescString(variants), "variants.as_ref().unwrap()", v, path, cx)
    ELSE MismatchRow(DescString(variants), "string", "Reset to default value",
                     ValueString(IF Len(Unwrap(variants)) > 0
                                 THEN Head(Unwrap(variants)) ELSE ""),
                     v, path, cx, e)

\* a combo box that brings a string outside the variants to the first one
probe_String_normalising(variants, v, path, cx, e) ==
    IF v.k = "string" /\ IsSome(variants)
    THEN LET vs == Unwrap(variants)
             picked == Clicked(e, path, "select") /\ e.n \in 1..Len(vs)
         IN  EditorRow(DescString(variants), "combo",
                       IF picked THEN ValueString(vs[e.n])
                       ELSE IF \E i \in 1..Len(vs) : vs[i] = v.s THEN v
                       ELSE ValueString(IF vs = <<>> THEN "" ELSE vs[1]),
                       v, path, cx, picked)
    ELSE IF v.k = "string"
    THEN EditorRow(DescString(variants), "text",
                   IF Clicked(e, path, "type") THEN ValueString(e.s) ELSE v,
                   v, path, cx, Clicked(e, path, "type"))
    ELSE String_mismatch(variants, v, path, cx, e)

\* Some(&Desc::String { ref variants })
probe_String(variants, v, path, cx, e) ==
    CASE v.k = "string" /\ ~IsSome(variants) ->
            EditorRow(DescString(variants), "text",
                      IF Clicked(e, path, "type") THEN ValueString(e.s) ELSE v,
                      v, path, cx, Clicked(e, path, "type"))
      [] v.k = "string" /\ IsSome(variants) ->
            EditorRow(DescString(variants), "combo",
                      IF Clicked(e, path, "select") /\ e.n \in 1..Len(Unwrap(variants))
                      THEN ValueString(Unwrap(variants)[e.n]) ELSE v,
                      v, path, cx,
                      Clicked(e, path, "select") /\ e.n \in 1..Len(Unwrap(variants)))
      [] OTHER -> String_mismatch(variants, v, path, cx, e)

\* an editor of the inferred schema that drops the edit
Edited_dropped(mydesc, path, e) == mydesc

\* the inferred schema after its own probe (the derived editor of Desc): the
\* one the user built in this frame, or the stored one
Edited(mydesc, path, e) == IF Clicked(e, path, "desc") THEN e.d ELSE mydesc

\* an insert that never looks for the key
HashMap_insert_blind(entries, key, val, slot) ==
    SubSeq(entries, 1, Min2(slot, Len(entries))) \o <<Entry(key, val)>>
        \o SubSeq(entries, Min2(slot, Len(entries)) + 1, Len(entries))

\* HashMap::insert: the value of a key already present is replaced where it
\* stands; a key new to the map lands at `slot` of the iteration order
HashMap_insert(entries, key, val, slot) ==
    IF \E i \in 1..Len(entries) : entries[i].key = key
    THEN [i \in 1..Len(entries) |->
            IF entries[i].key = key THEN Entry(key, val) ELSE entries[i]]
    ELSE LET at == Min2(slot, Len(entries))
         IN  SubSeq(entries, 1, at) \o <<Entry(key, val)>>
                \o SubSeq(entries, at + 1, Len(entries))

\* what probe leaves in the ValueProbe for iterate_inner: the value, the
\* fields mydesc and myid, and the context
Probed(r, mydesc, myid) == [v |-> r.v, mydesc |-> mydesc, myid |-> myid, cx |-> r.cx]

\* None: the inferred schema of this node, kept under make_persistent_id(id_source)
probe_None(v, id_source, path, cx, e) ==
    LET id == MakePersistentId(id_source)
        mydesc == Edited(GetTemp(cx.temp.desc, id, DescBool), path, e)
        cx1 == [cx EXCEPT !.temp.desc = InsertTemp(@, id, mydesc)]
    IN  [v |-> v, mydesc |-> mydesc, myid |-> NullId,
         cx |-> Rendered(cx1, Row(path, None, "infer", "", "", None, v, {DescAt(id)}),
                         Clicked(e, path, "desc"))]

\* Some(&Desc::List { elem_desc })
probe_List(elem, v, id_source, path, cx, e) ==
    CASE v.k = "list" /\ ~IsSome(elem) ->
            LET myid == MakePersistentId(With(id_source, "List"))
                mydesc == Edited(GetTemp(cx.temp.desc, myid, DescBool), path, e)
                elems == IF Clicked(e, path, "add")
                         THEN Append(v.e, default_value(mydesc)) ELSE v.e
                cx1 == [cx EXCEPT !.temp.desc = InsertTemp(@, myid, mydesc)]
            IN  [v |-> ValueList(elems), mydesc |-> mydesc, myid |-> myid,
                 cx |-> Rendered(cx1, Row(path, Some(DescList(elem)), "list", "", "", None, v,
                                          {DescAt(myid)}),
                                 Clicked(e, path, "desc") \/ Clicked(e, path, "add"))]
      [] v.k = "list" /\ IsSome(elem) ->
            LET elems == IF Clicked(e, path, "add")
                         THEN Append(v.e, default_value(Unwrap(elem))) ELSE v.e
            IN  Probed(EditorRow(DescList(elem), "list", ValueList(elems), v, path, cx,
                                 Clicked(e, path, "add")), DescBool, NullId)
      [] OTHER ->
            Probed(MismatchRow(DescList(elem), "list", "Reset to empty list",
                               ValueList(<<>>), v, path, cx, e), DescBool, NullId)

\* Some(&Desc::Map { value_desc })
probe_Map(value_desc, v, id_source, path, cx, e) ==
    IF v.k = "map"
    THEN LET myid == MakePersistentId(With(id_source, "Map"))
             new_key == GetTemp(cx.temp.key, myid, "")
             mydesc == IF IsSome(value_desc) THEN DescBool
                       ELSE Edited(GetTemp(cx.temp.desc, myid, DescBool), path, e)
             typed == IF Clicked(e, path, "key") THEN e.s ELSE new_key
             add == Clicked(e, path, "add")
             inserted == IF IsSome(value_desc) THEN default_value(Unwrap(value_desc))
                         ELSE default_value(mydesc)
             entries == IF add THEN HashMap_insert(v.e, typed, inserted, cx.slot) ELSE v.e
             cx1 == IF IsSome(value_desc) THEN cx
                    ELSE [cx EXCEPT !.temp.desc = InsertTemp(@, myid, mydesc)]
             cx2 == [cx1 EXCEPT !.temp.key = InsertTemp(@, myid, IF add THEN "" ELSE typed)]
             ids == {NewKeyAt(myid)} \cup (IF IsSome(value_desc) THEN {} ELSE {DescAt(myid)})
         IN  [v |-> ValueMap(entries), mydesc |-> mydesc, myid |-> myid,
              cx |-> Rendered(cx2, Row(path, Some(DescMap(value_desc)), "map", typed, "", None,
                                       v, ids),
                              add \/ Clicked(e, path, "key")
                                  \/ (~IsSome(value_desc) /\ Clicked(e, path, "desc")))]
    ELSE Probed(MismatchRow(DescMap(value_desc), "list", "Reset to empty map",
                            ValueMap(<<>>), v, path, cx, e), DescBool, NullId)

\* ValueProbe::probe, on the fields ValueProbe::new set (mydesc: Desc::Bool,
\* myid: Id::NULL)
probe(d, v, id_source, path, cx, e) ==
    IF ~IsSome(d) THEN probe_None(v, id_source, path, cx, e)
    ELSE LET s == Unwrap(d) IN
         CASE s.k = "Bool" -> Probed(probe_Bool(v, path, cx, e), DescBool, NullId)
           [] s.k = "Int" -> Probed(probe_Int(s.min, s.max, v, path, cx, e), DescBool, NullId)
           [] s.k = "Float" -> Probed(probe_Float(s.min, s.max, v, path, cx, e), DescBool, NullId)
           [] s.k = "String" -> Probed(probe_String(s.variants, v, path, cx, e), DescBool, NullId)
           [] s.k = "List" -> probe_List(s.elem, v, id_source, path, cx, e)
           [] s.k = "Map" -> probe_Map(s.elem, v, id_source, path, cx, e)

-----------------------------------------------------------------------------
(* ValueProbe::iterate_inner, DeleteMe, and the driver that renders a row   *)
(* (egui_probe's Probe: probe the row, then iterate_inner with itself as f) *)

RECURSIVE show(_, _, _, _, _, _)
RECURSIVE iterate_inner(_, _, _, _, _, _, _, _)
RECURSIVE DeleteMe_show(_, _, _, _, _, _)
RECURSIVE retain_mut(_, _, _, _, _, _, _)
RECURSIVE retain(_, _, _, _, _, _, _)

\* iterate_inner of the ValueProbe that probe left as p
inner_of(d, id_source, path, p, e) ==
    iterate_inner(d, p.v, id_source, path, p.mydesc, p.myid, p.cx, e)

\* f(label, ui, &mut probe) for a ValueProbe
show(d, v, id_source, path, cx, e) ==
    inner_of(d, id_source, path, probe(d, v, id_source, path, cx, e), e)

Item(r, delete) == [v |-> r.v, cx |-> [r.cx EXCEPT !.hit = @ \/ delete], delete |-> delete]

\* an iterate_inner that does not look at delete
DeleteMe_iterate_inner_always(d, id_source, path, p, e, delete) ==
    Item(inner_of(d, id_source, path, p, e), delete)

\* DeleteMe::iterate_inner: the inner iterate_inner, unless delete
DeleteMe_iterate_inner(d, id_source, path, p, e, delete) ==
    IF ~delete THEN Item(inner_of(d, id_source, path, p, e), FALSE)
    ELSE Item(p, TRUE)

\* f(label, ui, &mut item) for item = DeleteMe { value: &mut probe, delete: false }:
\* DeleteMe::probe (the inner probe, then the remove button sets delete), then
\* DeleteMe::iterate_inner
DeleteMe_show(d, v, id_source, path, cx, e) ==
    DeleteMe_iterate_inner(d, id_source, path, probe(d, v, id_source, path, cx, e), e,
                           Clicked(e, path, "remove"))

\* a closure that answers true
Retained_all(item, x, rest) == [kept |-> <<x>> \o rest.kept, cx |-> rest.cx]

\* the closure of retain_mut / retain answers !item.delete
Retained(item, x, rest) ==
    [kept |-> (IF item.delete THEN <<>> ELSE <<x>>) \o rest.kept, cx |-> rest.cx]

retain_mut_from(elem, elems, idx, id, path, item, e) ==
    Retained(item, item.v, retain_mut(elem, elems, idx + 1, id, path, item.cx, e))

\* elems.retain_mut(|value| ..) from element idx on: each element is shown as
\* row "[idx]" under id.with(idx), and kept unless its row set delete
retain_mut(elem, elems, idx, id, path, cx, e) ==
    IF idx >= Len(elems) THEN [kept |-> <<>>, cx |-> cx]
    ELSE retain_mut_from(elem, elems, idx, id, path,
                         DeleteMe_show(Some(elem), elems[idx + 1],
                                       IdNew(With(id, IdxSalt(idx))),
                                       Append(path, IdxLabel(idx)), cx, e), e)

retain_from(value_desc, entries, idx, id, path, item, e) ==
    Retained(item, Entry(entries[idx + 1].key, item.v),
             retain(value_desc, entries, idx + 1, id, path, item.cx, e))

\* values.retain(|key, value| ..) from position idx of the iteration on: each
\* entry is shown as the row labelled by its key, under id.with(idx)
retain(value_desc, entries, idx, id, path, cx, e) ==
    IF idx >= Len(entries) THEN [kept |-> <<>>, cx |-> cx]
    ELSE retain_from(value_desc, entries, idx, id, path,
                     DeleteMe_show(Some(value_desc), entries[idx + 1].val,
                                   IdNew(With(id, IdxSalt(idx))),
                                   Append(path, entries[idx + 1].key), cx, e), e)

\* self.mydesc.iterate_inner(ui, f): the rows of the inferred schema's fields
\* (Desc::Bool has none); editing them keeps the variant
FieldsEdited(mydesc, path, e) ==
    IF Clicked(e, path, "field") /\ mydesc.k # "Bool" /\ e.d.k = mydesc.k
    THEN e.d ELSE mydesc

\* the arm `None =>` of the element schema in iterate_inner: the fields of
\* mydesc are shown, and mydesc is stored under myid
inner_None(d, v, path, mydesc, myid, cx, e) ==
    LET edited == FieldsEdited(mydesc, path, e)
    IN  [mydesc |-> edited,
         cx |-> Rendered([cx EXCEPT !.temp.desc = InsertTemp(@, myid, edited)],
                         Row(path, d, "inner", "", "", None, v, {DescAt(myid)}),
                         edited # mydesc)]

\* the element schema and the context the children are shown with
Elem(d, v, path, mydesc, myid, cx, e) ==
    IF IsSome(Unwrap(d).elem) THEN [mydesc |-> Unwrap(Unwrap(d).elem), cx |-> cx]
    ELSE inner_None(d, v, path, mydesc, myid, cx, e)

ListOf(r) == [v |-> ValueList(r.kept), cx |-> r.cx]
MapOf(r) == [v |-> ValueMap(r.kept), cx |-> r.cx]

\* the arms Some(Desc::List { .. }) and Some(Desc::Map { .. }), given the
\* element schema: the children of a value of the variant, none otherwise
inner_List(in, v, id_source, path, e) ==
    IF v.k = "list"
    THEN ListOf(retain_mut(in.mydesc, v.e, 0, With(id_source, "List"), path, in.cx, e))
    ELSE [v |-> v, cx |-> in.cx]

inner_Map(in, v, id_source, path, e) ==
    IF v.k = "map"
    THEN MapOf(retain(in.mydesc, v.e, 0, With(id_source, "List"), path, in.cx, e))
    ELSE [v |-> v, cx |-> in.cx]

iterate_inner(d, v, id_source, path, mydesc, myid, cx, e) ==
    IF ~IsSome(d)
    THEN show(Some(mydesc), v, IdNew(id_source), Append(path, "value"), cx, e)
    ELSE CASE Unwrap(d).k \in {"Bool", "Int", "Float", "String"} -> [v |-> v, cx |-> cx]
           [] Unwrap(d).k = "List" ->
                inner_List(Elem(d, v, path, mydesc, myid, cx, e),
                           v, id_source, path, e)
           [] Unwrap(d).k = "Map" ->
                inner_Map(Elem(d, v, path, mydesc, myid, cx, e),
                          v, id_source, path, e)

-----------------------------------------------------------------------------
(* The frames of the demo application (src/examples/demo.rs, update)        *)

\* the numbers a user enters are -MaxNum .. MaxNum
MaxNum == 2
\* add is not clicked once the value tree has MaxNodes nodes
MaxNodes == 4

Nums == -MaxNum..MaxNum
Texts == {"", "a"}
Keys == {"a", "b"}
Variants == <<"x", "y">>
Bounds == {None, Some(-1), Some(1)}

RECURSIVE Size(_)
RECURSIVE SizeAll(_, _)
Size(v) ==
    CASE v.k = "list" -> 1 + SizeAll(v.e, 1)
      [] v.k = "map" -> 1 + SizeAll([i \in 1..Len(v.e) |-> v.e[i].val], 1)
      [] OTHER -> 1
SizeAll(vs, i) == IF i > Len(vs) THEN 0 ELSE Size(vs[i]) + SizeAll(vs, i + 1)

\* A world: the schemas the host application chooses among (host, each an
\* Option<Desc>), those the user builds in an inferred-schema editor (infer),
\* the values the application may start with, and the numbers and keys the
\* user enters.
World(host, infer, values, nums, keys) ==
    [host |-> host, infer |-> infer, values |-> values, nums |-> nums, keys |-> keys]

\* ValueProbe::new(self.desc.as_ref(), &mut self.value, "demo-value"), shown
\* by Probe::new(&mut value_probe).show(ui)
FrameOn(d, v, store, e, slot) ==
    show(d, v, IdNew(<<"demo-value">>), <<>>, Cx(store, {}, FALSE, slot), e)

\* the frame of the current state
Frame(d, e, slot) == FrameOn(d, value, temp, e, slot)

\* the widgets a row of type t shows, besides the remove button of DeleteMe
Widgets(t) ==
    CASE t = "checkbox" -> {"toggle"}
      [] t \in {"drag", "drag_range"} -> {"drag"}
      [] t = "text" -> {"type"}
      [] t = "combo" -> {"select"}
      [] t = "mismatch" -> {"button"}
      [] t = "infer" -> {"desc"}
      [] t = "inner" -> {"field"}
      [] t = "list" -> {"add", "desc"}
      [] t = "map" -> {"add", "key", "desc"}
      [] OTHER -> {}

\* the paths of the rows among shown that have widget w
On(shown, w) == {r.path : r \in {q \in shown : w \in Widgets(q.t)}}

\* the interactions a user may try: a widget on a row the frame shows
Events(W, shown) ==
    {Event(p, "toggle", 0, "", DescBool) : p \in On(shown, "toggle")}
        \cup {Event(p, "button", 0, "", DescBool) : p \in On(shown, "button")}
        \cup {Event(p, "add", 0, "", DescBool) : p \in On(shown, "add")}
        \cup {Event(r.path, "remove", 0, "", DescBool) : r \in {q \in shown : q.path # <<>>}}
        \cup {Event(p, "drag", n, "", DescBool) : p \in On(shown, "drag"), n \in W.nums}
        \cup {Event(p, "select", n, "", DescBool) :
                    p \in On(shown, "select"), n \in 1..Len(Variants)}
        \cup {Event(p, "type", 0, s, DescBool) : p \in On(shown, "type"), s \in Texts}
        \cup {Event(p, "key", 0, s, DescBool) : p \in On(shown, "key"), s \in W.keys}
        \cup {Event(p, "desc", 0, "", d) : p \in On(shown, "desc"), d \in W.infer}
        \cup {Event(p, "field", 0, "", d) : p \in On(shown, "field"), d \in W.infer}

\* the frame r, rendered under schema d with interaction e, becomes the state
Apply(d, e, r) ==
    /\ r.cx.hit \/ e = IdleEv
    /\ Size(r.v) <= MaxNodes
    /\ desc' = d
    /\ value' = r.v
    /\ temp' = r.cx.temp
    /\ ev' = e
    /\ rows' = r.cx.rows

\* a frame in which nothing is touched
Idle == \E r \in {Frame(desc, IdleEv, 0)} : Apply(desc, IdleEv, r)

\* a frame in which the schema was edited in the side panel
HostEdits(W) ==
    \E d \in W.host \ {desc} : \E r \in {Frame(d, IdleEv, 0)} : Apply(d, IdleEv, r)

\* a frame in which the user touches one widget of the value's probe
Interact(W) ==
    \E idle \in {Frame(desc, IdleEv, 0)} :
        \E e \in Events(W, idle.cx.rows) :
            \E slot \in (IF e.w = "add" THEN 0..MaxNodes ELSE {0}) :
                \E r \in {Frame(desc, e, slot)} : Apply(desc, e, r)

Start(W) ==
    /\ desc \in W.host
    /\ value \in W.values
    /\ temp = EmptyTemp
    /\ ev = IdleEv
    /\ rows = {}

Step(W) == Idle \/ HostEdits(W) \/ Interact(W)

\* leaf schemas: every variant without children, every combination of bounds
LeafDescs ==
    {DescBool} \cup {DescInt(a, b) : a \in Bounds, b \in Bounds}
        \cup {DescFloat(a, b) : a \in Bounds, b \in Bounds}
        \cup {DescString(None), DescString(Some(<<>>)), DescString(Some(Variants))}

LeafWorld ==
    World({None} \cup {Some(d) : d \in LeafDescs},
          {DescBool, DescInt(Some(-1), Some(1)), DescFloat(None, None), DescString(None)},
          {ValueInt(MaxNum), ValueList(<<>>), ValueMap(<<>>)}, Nums, Keys)

Init == Start(LeafWorld)
Next == Step(LeafWorld)
Spec == Init /\ [][Next]_vars

\* lists and maps of leaves; the keys are "a" and the empty text the key
\* field starts with
TreeWorld ==
    World({Some(DescList(Some(DescInt(None, None)))), Some(DescList(Some(DescBool))),
           Some(DescMap(Some(DescInt(None, None)))), Some(DescMap(Some(DescBool))),
           Some(DescMap(None))},
          {DescBool, DescInt(None, None)},
          {ValueList(<<>>), ValueMap(<<>>)}, {0, 1}, {"a"})

InitTree == Start(TreeWorld)
NextTree == Step(TreeWorld)
SpecTree == InitTree /\ [][NextTree]_vars

\* lists of lists whose element schema is inferred
NestedWorld ==
    World({Some(DescList(Some(DescList(None)))), Some(DescList(Some(DescBool)))},
          {DescBool, DescInt(None, None)},
          {ValueList(<<>>)}, {0, 1}, {"a"})

InitNested == Start(NestedWorld)
NextNested == Step(NestedWorld)
SpecNested == InitNested /\ [][NextNested]_vars

\* lists of maps
MapsWorld ==
    World({Some(DescList(Some(DescMap(Some(DescBool))))), Some(DescList(Some(DescBool)))},
          {DescBool},
          {ValueList(<<>>)}, {0, 1}, {"a"})

InitMaps == Start(MapsWorld)
NextMaps == Step(MapsWorld)
SpecMaps == InitMaps /\ [][NextMaps]_vars

\* absent schemas: at the root, and as the element and value schema
InferWorld ==
    World({None, Some(DescList(None)), Some(DescMap(None))},
          {DescBool, DescInt(None, Some(1))},
          {ValueList(<<>>)}, {0, 1}, {"a"})

InitInfer == Start(InferWorld)
NextInfer == Step(InferWorld)
SpecInfer == InitInfer /\ [][NextInfer]_vars

-----------------------------------------------------------------------------
(* Desc::default_value as a caller of the library uses it *)

\* every variant: the leaves, and lists and maps of an absent schema or a leaf
AllDescs ==
    LeafDescs
        \cup {DescList(None), DescMap(None)}
        \cup {DescList(Some(d)) : d \in LeafDescs}
        \cup {DescMap(Some(d)) : d \in LeafDescs}

DefaultEv == Event(<<>>, "default", 0, "", DescBool)

\* the caller takes another schema
Describe ==
    /\ \E d \in AllDescs \ {Unwrap(desc)} : desc' = Some(d)
    /\ ev' = IdleEv
    /\ UNCHANGED <<value, temp, rows>>

\* value = desc.default_value()
TakeDefault ==
    /\ value' = default_value(Unwrap(desc))
    /\ ev' = DefaultEv
    /\ UNCHANGED <<desc, temp, rows>>

InitDefault ==
    /\ desc \in {Some(d) : d \in AllDescs}
    /\ value = ValueInt(MaxNum)
    /\ temp = EmptyTemp
    /\ ev = IdleEv
    /\ rows = {}

NextDefault == Describe \/ TakeDefault
SpecDefault == InitDefault /\ [][NextDefault]_vars

-----------------------------------------------------------------------------
(* Reading the state *)

\* the value of the row at `path`: "value" is the child of a node without a
\* schema (the same value), "[i]" element i of a list, a key its map entry
RECURSIVE ValueAt(_, _)
ValueAt(v, path) ==
    IF path = <<>> THEN v
    ELSE CASE Head(path) = "value" -> ValueAt(v, Tail(path))
           [] v.k = "list" ->
                ValueAt(v.e[CHOOSE i \in 1..Len(v.e) : IdxLabel(i - 1) = Head(path)],
                        Tail(path))
           [] v.k = "map" ->
                ValueAt(v.e[CHOOSE i \in 1..Len(v.e) : v.e[i].key = Head(path)].val,
                        Tail(path))

InBounds(n, min, max) ==
    /\ IsSome(min) => n >= Unwrap(min)
    /\ IsSome(max) => n <= Unwrap(max)

IsPrefix(p, q) == Len(p) <= Len(q) /\ SubSeq(q, 1, Len(p)) = p

IsIdx(label) == \E i \in 0..MaxNodes : IdxLabel(i) = label
IdxOf(label) == CHOOSE i \in 0..MaxNodes : IdxLabel(i) = label

\* the last frame removed the node of the row at path, or a node above it
Removed(path) == ev.w = "remove" /\ IsPrefix(ev.path, path)

\* the row of the last frame at path stands after a list element that the
\* frame removed
Shifted(path) ==
    /\ ev.w = "remove" /\ ~Removed(path)
    /\ Len(ev.path) <= Len(path)
    /\ SubSeq(path, 1, Len(ev.path) - 1) = SubSeq(ev.path, 1, Len(ev.path) - 1)
    /\ IsIdx(ev.path[Len(ev.path)]) /\ IsIdx(path[Len(ev.path)])
    /\ IdxOf(path[Len(ev.path)]) > IdxOf(ev.path[Len(ev.path)])

\* where the node of the row at path is after the last frame
Image(path) ==
    IF Shifted(path)
    THEN [path EXCEPT ![Len(ev.path)] = IdxLabel(IdxOf(@) - 1)]
    ELSE path

\* the sequence without its element i
Without(seq, i) == SubSeq(seq, 1, i - 1) \o SubSeq(seq, i + 1, Len(seq))

\* the row was probed with an Int or Float schema
Numeric(r) == IsSome(r.d) /\ Unwrap(r.d).k \in {"Int", "Float"}

\* an Int or Float schema with both bounds present and min > max
MinAboveMax(d) ==
    /\ d.k \in {"Int", "Float"}
    /\ IsSome(d.min) /\ IsSome(d.max)
    /\ Unwrap(d.min) > Unwrap(d.max)

-----------------------------------------------------------------------------
(* The claims *)

\* C2: a number of the schema's variant, shown under an Int or Float schema
\* whose range is valid, is after the frame >= min when min is present and
\* <= max when max is present.
C2_RangeEditorKeepsBounds ==
    \A r \in rows :
        (Numeric(r) /\ ~MinAboveMax(Unwrap(r.d)) /\ r.given.k = Desc_kind(Unwrap(r.d)))
            => /\ ValueAt(value, r.path).k = r.given.k
               /\ InBounds(ValueAt(value, r.path).n, Unwrap(r.d).min, Unwrap(r.d).max)

\* a number above max was entered and the stored number is max
C2_Witness ==
    \E r \in rows :
        /\ Numeric(r) /\ r.t = "drag_range" /\ IsSome(Unwrap(r.d).max)
        /\ Clicked(ev, r.path, "drag") /\ ev.n > Unwrap(Unwrap(r.d).max)
        /\ ValueAt(value, r.path).n = Unwrap(Unwrap(r.d).max)

\* C3: under an Int or Float schema with min > max the row is the message
\* "Invalid range. 'min = <min>' must be not greater than 'max = <max>'."
\* alone, whatever the variant of the value: it has no button, no interaction
\* lands on it, and the value is the one the row was given.
C3_InvalidRangeIsInert ==
    \A r \in rows :
        (IsSome(r.d) /\ MinAboveMax(Unwrap(r.d)))
            => /\ r.t = "invalid_range"
               /\ r.label = "" /\ r.offer = None
               /\ r.d = Some(DescInt(Some(1), Some(-1)))
                    => r.msg = "Invalid range. 'min = 1' must be not greater than 'max = -1'."
               /\ r.d = Some(DescFloat(Some(1), Some(-1)))
                    => r.msg = "Invalid range. 'min = 0.5' must be not greater than 'max = -0.5'."
               /\ \A q \in rows : q.path = r.path => q = r
               /\ ev.path = r.path => ev.w \in {"idle", "remove"}
               /\ ValueAt(value, r.path) = r.given

\* an invalid range was rendered over a value of another variant
C3_Witness ==
    \E r \in rows :
        /\ IsSome(r.d) /\ MinAboveMax(Unwrap(r.d))
        /\ r.given.k # Desc_kind(Unwrap(r.d))
        /\ r.t = "invalid_range" /\ value = r.given

\* the first variant, or the empty string
FirstVariant(vs) == IF Len(vs) > 0 THEN vs[1] ELSE ""

\* the row was probed with String { variants: Some(vs) } over a value that is
\* no string
VariantsMismatch(r) ==
    /\ IsSome(r.d) /\ Unwrap(r.d).k = "String" /\ IsSome(Unwrap(r.d).variants)
    /\ r.given.k # "string"

\* C9: under String { variants: Some(vs) } a value that is no string gets one
\* button, "Reset to default value"; a click sets the value to the first
\* element of vs, or to "" when vs is empty, and without the click the value
\* stays; no conversion of the old value is offered.
C9_VariantsOfferOnlyReset ==
    \A r \in rows :
        VariantsMismatch(r)
            => LET first == ValueString(FirstVariant(Unwrap(Unwrap(r.d).variants)))
               IN  /\ r.t = "mismatch"
                   /\ r.label = "Reset to default value"
                   /\ r.offer = Some(first)
                   /\ ev.path = r.path => ev.w \in {"idle", "button", "remove"}
                   /\ ValueAt(value, r.path) =
                        (IF Clicked(ev, r.path, "button") THEN first ELSE r.given)

\* the reset was clicked over an integer and the value is the first variant
C9_Witness ==
    \E r \in rows :
        /\ VariantsMismatch(r) /\ r.given.k = "int"
        /\ Unwrap(r.d).variants = Some(Variants)
        /\ Clicked(ev, r.path, "button")
        /\ value = ValueString("x")

\* the convert button of an Int schema over a float, or of a Float schema over
\* an integer, was clicked in the last frame
Converted(r) ==
    /\ Numeric(r) /\ r.t = "mismatch" /\ Clicked(ev, r.path, "button")
    /\ \/ Unwrap(r.d).k = "Int" /\ r.given.k = "float"
       \/ Unwrap(r.d).k = "Float" /\ r.given.k = "int"

\* C10: after a click on the convert button the value has the schema's
\* variant, and the next idle frames show the editor of that variant on the
\* row and leave the value as it is.
C10_ConversionIsIdempotent ==
    \A r \in rows :
        Converted(r)
            => /\ ValueAt(value, r.path).k = Desc_kind(Unwrap(r.d))
               /\ FrameOn(desc, value, temp, IdleEv, 0).v = value
               /\ \A q \in FrameOn(desc, value, temp, IdleEv, 0).cx.rows :
                        q.path = r.path => q.t \in {"drag", "drag_range"}
               /\ FrameOn(desc, FrameOn(desc, value, temp, IdleEv, 0).v,
                           FrameOn(desc, value, temp, IdleEv, 0).cx.temp, IdleEv, 0).v = value

\* a float whose integer part is above max was converted, to max
C10_Witness ==
    \E r \in rows :
        /\ Converted(r) /\ Unwrap(r.d).k = "Int" /\ IsSome(Unwrap(r.d).max)
        /\ FloatAsInt(r.given.n) > Unwrap(Unwrap(r.d).max)
        /\ value = ValueInt(Unwrap(Unwrap(r.d).max))

\* the row was probed with a schema whose variant is not the value's
Mismatching(r) == IsSome(r.d) /\ r.given.k # Desc_kind(Unwrap(r.d))

\* the last frame inserted, by the add button of a map, the key of the entry
\* at path
Replaced(path) ==
    \E m \in rows :
        m.t = "map" /\ Clicked(ev, m.path, "add") /\ path = Append(m.path, m.msg)

\* within a frame: a mismatching row that the frame keeps leaves the value it
\* was given, or what its button offers when the button was clicked
RowRepairsOnClick ==
    \A r \in rows :
        (Mismatching(r) /\ ~Removed(r.path))
            => ValueAt(value, Image(r.path)) =
                (IF Clicked(ev, r.path, "button") THEN Unwrap(r.offer) ELSE r.given)

\* the last frame left the node of row r mismatching and in its place
StaysMismatching(r) ==
    /\ Mismatching(r) /\ ~Removed(r.path) /\ ~Shifted(r.path)
    /\ ~Clicked(ev, r.path, "button")

C4_RetentionFilter ==
    \A c \in rows :
        c.t \in {"list", "map"} /\ ~Removed(c.path)
            => IF ev.w = "remove" /\ ev.path # <<>>
                    /\ SubSeq(ev.path, 1, Len(ev.path) - 1) = c.path
               THEN \E i \in 1..Len(c.given.e) :
                        /\ IF c.t = "list" THEN ev.path[Len(ev.path)] = IdxLabel(i - 1)
                           ELSE ev.path[Len(ev.path)] = c.given.e[i].key
                        /\ ValueAt(value, Image(c.path)).e = Without(c.given.e, i)
               ELSE Len(ValueAt(value, Image(c.path)).e) =
                        Len(c.given.e)
                            + (IF /\ Clicked(ev, c.path, "add")
                                  /\ \A i \in 1..Len(c.given.e) :
                                        c.t = "list" \/ c.given.e[i].key # c.msg
                               THEN 1 ELSE 0)

\* index 1 of a list of three was removed; the former elements 0 and 2, which
\* differ, are left in that order
C4_Witness ==
    \E c \in rows :
        /\ c.t = "list" /\ Len(c.given.e) = 3
        /\ Clicked(ev, Append(c.path, IdxLabel(1)), "remove")
        /\ c.given.e[1] # c.given.e[3]
        /\ value = ValueList(<<c.given.e[1], c.given.e[3]>>)

\* the schema whose default value the add button of the map row inserts: the
\* value schema, or the inferred schema kept in temp storage
Inserted(m) ==
    IF IsSome(Unwrap(m.d).elem) THEN Unwrap(Unwrap(m.d).elem)
    ELSE temp.desc[CHOOSE id \in DOMAIN temp.desc : DescAt(id) \in m.ids]

\* C8: add on a Map node whose key field holds a key of the map leaves the
\* map with the same keys in the same places, the entry of that key holding
\* the default value of the value schema and every other entry as it was.
C8_AddExistingKeyReplaces ==
    \A m \in rows :
        (/\ m.t = "map" /\ Clicked(ev, m.path, "add")
         /\ \E i \in 1..Len(m.given.e) : m.given.e[i].key = m.msg)
            => ValueAt(value, m.path).e =
                [i \in 1..Len(m.given.e) |->
                    IF m.given.e[i].key = m.msg
                    THEN Entry(m.msg, default_value(Inserted(m)))
                    ELSE m.given.e[i]]

\* a map of two entries, the entry of the key in the key field holding 1:
\* after add it holds the default 0 and the other entry is as it was
C8_Witness ==
    \E m \in rows :
        /\ m.t = "map" /\ Clicked(ev, m.path, "add") /\ Len(m.given.e) = 2
        /\ \E i \in 1..2 :
                /\ m.given.e[i] = Entry(m.msg, ValueInt(1))
                /\ value.e[i] = Entry(m.msg, ValueInt(0))
                /\ value.e[3 - i] = m.given.e[3 - i]

\* C5 as stated: a node that a frame keeps reads, in the next frame, its
\* transient state under the identities it read it under in this one, when
\* its probe is given the same schema and shows the same kind of row.
C5_IdentityIsStable ==
    [][\A r \in rows : \A q \in rows' :
            (/\ ~Removed(r.path) /\ q.path = Image(r.path)
             /\ q.d = r.d /\ q.t = r.t /\ r.t \in {"infer", "list", "map"})
                => q.ids = r.ids]_vars

\* C6 as stated: within a frame no identity of temp storage is used by the
\* rows of two nodes.
C6_NoSharedIdentity ==
    \A r \in rows : \A q \in rows :
        r.path # q.path => r.ids \cap q.ids = {}

\* C7 as stated: a frame without interaction, under the schema of the frame
\* before, leaves the value as it was.
C7_IdleFrameKeepsValue ==
    [][(ev' = IdleEv /\ desc' = desc) => value' = value]_vars

\* C11: the value default_value() gives for a schema is of the schema's kind.
C11_DefaultHasTheKind ==
    ev = DefaultEv => Value_kind(value) = Desc_kind(Unwrap(desc))

\* the default of a map schema was taken, and is a map
C11_Witness ==
    ev = DefaultEv /\ Unwrap(desc).k = "Map" /\ Value_kind(value) = "map"

\* C19 as stated: the value default_value() gives for an Int or Float schema
\* that does not have min > max is within the present bounds.
C19_DefaultWithinBounds ==
    (ev = DefaultEv /\ Unwrap(desc).k \in {"Int", "Float"} /\ ~MinAboveMax(Unwrap(desc)))
        => InBounds(value.n, Unwrap(desc).min, Unwrap(desc).max)

\* C12: every frame runs to completion: it renders the root row, and no row
\* is a panic (a clamp over min > max, an unwrap of absent variants).
C12_NoFrameAborts ==
    rows # {} => /\ \E r \in rows : r.path = <<>>
                 /\ \A r \in rows : r.t # "panic"

\* a float under an Int schema with min > max, where the conversion would
\* clamp, was rendered as the invalid range message
C12_Witness ==
    \E r \in rows :
        /\ IsSome(r.d) /\ Unwrap(r.d).k = "Int" /\ MinAboveMax(Unwrap(r.d))
        /\ r.given.k = "float" /\ r.t = "invalid_range"

\* the row is an item of a list or a map (a DeleteMe row)
IsItem(r) == r.path # <<>> /\ r.path[Len(r.path)] # "value"

\* rows below the row at path, and the rows iterate_inner adds at path itself
Expansion(path) ==
    {q \in rows : IsPrefix(path, q.path) /\ (q.path # path \/ q.t = "inner")}

\* C13: the row of an item whose remove button was clicked in the frame is
\* not expanded (no row below it, none from its iterate_inner), and the row
\* of an item whose remove button was not clicked is: a list or map with
\* children has their rows.
C13_CondemnedRowIsNotExpanded ==
    \A r \in rows :
        (IsItem(r) /\ r.t # "inner")
            => IF Clicked(ev, r.path, "remove")
               THEN Expansion(r.path) = {}
               ELSE (r.t \in {"list", "map"} /\ Len(r.given.e) > 0)
                        => \E q \in Expansion(r.path) : Len(q.path) = Len(r.path) + 1

\* remove was clicked on an item that is a list with an element: no row of
\* the element was rendered
C13_Witness ==
    \E r \in rows :
        /\ IsItem(r) /\ r.t = "list" /\ Len(r.given.e) > 0
        /\ Clicked(ev, r.path, "remove")
        /\ Expansion(r.path) = {}

\* the words that name a kind
KindNames(k) ==
    CASE k = "bool" -> {"bool", "boolean"}
      [] k = "int" -> {"int", "integer"}
      [] OTHER -> {k}

\* C14 as stated: a mismatch row says "Expected <the schema's kind>, but is
\* <the value's kind> instead".
C14_MessageNamesTheKinds ==
    \A r \in rows :
        r.t = "mismatch"
            => \E what \in KindNames(Desc_kind(Unwrap(r.d))) :
                    r.msg = "Expected " \o what \o ", but is " \o Value_kind(r.given)
                                \o " instead"

\* the integer nearest to n halves among those not further from zero
TowardZero(n) ==
    CHOOSE t \in -Abs(n)..Abs(n) :
        t * n >= 0 /\ 2 * Abs(t) <= Abs(n) /\ Abs(n) < 2 * Abs(t) + 2

\* x moved to the nearest number within the present bounds
Within(x, min, max) ==
    IF IsSome(max) /\ x > Unwrap(max) THEN Unwrap(max)
    ELSE IF IsSome(min) /\ x < Unwrap(min) THEN Unwrap(min)
    ELSE x

\* C15: a click on convert under a valid-range Int schema over Float(f)
\* leaves Int(f truncated toward zero, then moved into the bounds), and under
\* a valid-range Float schema over Int(i) leaves Float(i, moved into the
\* bounds); the number is within the present bounds.
C15_ConvertTruncatesThenClamps ==
    \A r \in rows :
        Converted(r)
            => /\ value =
                    (IF Unwrap(r.d).k = "Int"
                     THEN ValueInt(Within(TowardZero(r.given.n),
                                          Unwrap(r.d).min, Unwrap(r.d).max))
                     ELSE ValueFloat(Within(2 * r.given.n,
                                            Unwrap(r.d).min, Unwrap(r.d).max)))
               /\ InBounds(value.n, Unwrap(r.d).min, Unwrap(r.d).max)

\* Float(-0.5) was converted under Int without bounds, to Int(0)
C15_Witness ==
    \E r \in rows :
        /\ Converted(r) /\ r.d = Some(DescInt(None, None))
        /\ r.given = ValueFloat(-1)
        /\ value = ValueInt(0)

\* the reset button of an Int schema over a value that is no number, or of a
\* Float schema over one, was clicked in the last frame
WasReset(r) ==
    /\ Numeric(r) /\ r.t = "mismatch" /\ Clicked(ev, r.path, "button")
    /\ r.given.k \notin {"int", "float"}

\* 0, or the bound nearest to 0 when 0 is outside the present bounds
ZeroWithin(min, max) ==
    CASE ~IsSome(min) /\ ~IsSome(max) -> 0
      [] IsSome(min) /\ ~IsSome(max) -> IF Unwrap(min) > 0 THEN Unwrap(min) ELSE 0
      [] ~IsSome(min) /\ IsSome(max) -> IF Unwrap(max) < 0 THEN Unwrap(max) ELSE 0
      [] OTHER -> Within(0, min, max)

\* C16: a click on reset under a valid-range Int or Float schema over a value
\* that is no number leaves the number 0 without bounds, max(min, 0) with min
\* alone, min(max, 0) with max alone, 0 clamped into [min, max] with both; it
\* is within the present bounds.
C16_ResetIsClampSafe ==
    \A r \in rows :
        WasReset(r)
            => /\ value.k = Desc_kind(Unwrap(r.d))
               /\ value.n = ZeroWithin(Unwrap(r.d).min, Unwrap(r.d).max)
               /\ InBounds(value.n, Unwrap(r.d).min, Unwrap(r.d).max)

\* a list under Int with max = -1 alone was reset, to -1
C16_Witness ==
    \E r \in rows :
        /\ WasReset(r) /\ r.d = Some(DescInt(None, Some(-1)))
        /\ r.given.k = "list"
        /\ value = ValueInt(-1)

\* the pending key the map row left in temp storage
StoredKey(m) == temp.key[CHOOSE id \in DOMAIN temp.key : NewKeyAt(id) \in m.ids]

\* within a frame: add inserts under the text of the key field and stores the
\* empty text; without add the text of the key field is stored
KeyTakenOnAdd ==
    \A m \in rows :
        m.t = "map"
            => IF Clicked(ev, m.path, "add")
               THEN /\ StoredKey(m) = ""
                    /\ ~Removed(m.path)
                            => \E i \in 1..Len(ValueAt(value, Image(m.path)).e) :
                                    ValueAt(value, Image(m.path)).e[i].key = m.msg
               ELSE StoredKey(m) = m.msg

\* C17 as stated: add inserts under the pending key and stores the empty
\* text, a frame without add stores the text as edited, and the next frame
\* of the same node, when the key field is not edited in it, shows the text
\* the frame before stored.
C17_PendingKeyPersists ==
    [][/\ KeyTakenOnAdd'
       /\ \A m \in rows : \A n \in rows' :
            (/\ m.t = "map" /\ n.t = "map"
             /\ ~Removed(m.path) /\ n.path = Image(m.path)
             /\ ~Clicked(ev', n.path, "key"))
                => n.msg = StoredKey(m)]_vars

\* the row shows the editor of an inferred schema, kept under id
Infers(n, id) == n.t \in {"infer", "list", "map"} /\ DescAt(id) \in n.ids

\* the rows of the children of the row at path
ChildRows(shown, path) ==
    {q \in shown : Len(q.path) = Len(path) + 1 /\ IsPrefix(path, q.path)}

\* C18: a node with an absent schema starts a frame from the schema stored
\* under its identity at the end of the frame before, Bool when there is
\* none; the schema stored at the end of the frame is that one, or the one
\* edited in the frame, and the rows of the node's children in the frame are
\* probed with it.
C18_InferredSchemaPersists ==
    [][\A n \in rows' : \A id \in DOMAIN temp'.desc :
            Infers(n, id)
                => /\ temp'.desc[id] =
                        (IF ev'.path = n.path /\ ev'.w \in {"desc", "field"} THEN ev'.d
                         ELSE GetTemp(temp.desc, id, DescBool))
                   /\ \A q \in ChildRows(rows', n.path) : q.d = Some(temp'.desc[id])]_vars

\* the inferred schema of a list was edited to Int with max 1: it is stored,
\* and an element is probed with it
C18_Witness ==
    \E n \in rows : \E id \in DOMAIN temp.desc :
        /\ Infers(n, id) /\ n.t = "list"
        /\ temp.desc[id] = DescInt(None, Some(1))
        /\ \E q \in ChildRows(rows, n.path) : q.d = Some(DescInt(None, Some(1)))

\* C20 as stated: no frame stores an inferred schema under the null identity.
C20_NothingStoredUnderNull == NullId \notin DOMAIN temp.desc

\* the row is a string probed under a schema with variants
OfVariants(r) ==
    /\ IsSome(r.d) /\ Unwrap(r.d).k = "String" /\ IsSome(Unwrap(r.d).variants)
    /\ r.given.k = "string"

VariantsOf(r) == Unwrap(Unwrap(r.d).variants)

\* C21: a string under a schema with variants, member of the variants or
\* not, is shown as a combo box without a diagnostic; after the frame it is
\* the variant selected in the frame, and unchanged without a selection.
C21_OnlyASelectionChangesTheString ==
    \A r \in rows :
        OfVariants(r)
            => /\ r.t = "combo" /\ r.msg = "" /\ r.label = "" /\ r.offer = None
               /\ IF Clicked(ev, r.path, "select")
                  THEN /\ ev.n \in 1..Len(VariantsOf(r))
                       /\ ValueAt(value, r.path) = ValueString(VariantsOf(r)[ev.n])
                  ELSE ValueAt(value, r.path) = r.given

\* a string outside the variants was replaced by the variant selected in the
\* frame
C21_Witness ==
    \E r \in rows :
        /\ OfVariants(r)
        /\ \A i \in 1..Len(VariantsOf(r)) : VariantsOf(r)[i] # r.given.s
        /\ VariantsOf(r) # <<>>
        /\ Clicked(ev, r.path, "select")
        /\ ValueAt(value, r.path) # r.given

=============================================================================
